---- MODULE Spec2Model ----
(***************************************************************************)
(* Incremental codebase index of charlie/max: build_or_load_vectorstore    *)
(* (src/max/vectorstore.py) as a state machine over the project's files,   *)
(* the index directory (.charlie_index, legacy .codeflow_index), the       *)
(* metadata document index_meta.json and the Chroma vector index.          *)
(*                                                                         *)
(* One pass of build_or_load_vectorstore is cut at the points where the    *)
(* code touches the filesystem or an external service, so that edits of    *)
(* the project by its user, a failure of the embedding service and a crash *)
(* of the process can fall between two steps, as they can in the program.  *)
(*                                                                         *)
(* Spec       one pass at a time, followed by search_codebase              *)
(*            (src/max/agents/analyst/tools.py) on the handle it returns.  *)
(* SpecRace   two passes over one project directory at the same time.      *)
(* SpecMemory get_memory (src/max/memory.py) and the object it hands out.  *)
(***************************************************************************)
EXTENDS Integers, Sequences, FiniteSets, TLC

\* ------------------------------------------------------------------ bounds
NumFiles   == 2      \* project files that may exist
MaxContent == 2      \* distinct byte contents a file may have
NumDigests == 2      \* distinct digests file_hash may return
MaxEdits   == 2      \* edits of the project by its user in one behaviour
TextUnit   == 500    \* characters of text per unit of content
NumQueries == 2      \* distinct queries search_codebase is called with
NumPasses  == 2      \* passes running over one project at the same time
MaxRaceEdits == 1    \* edits of the project while those passes run
MaxCalls   == 4      \* calls of get_memory in one behaviour
MaxHistory == 3      \* messages saved to the conversation memory
NumMessages == 3     \* distinct messages
MaxInputs == 3       \* submissions and key presses in one run of CharlieApp
MaxChunks == 2       \* chunks one stream yields
MaxLaunches == 2     \* launches of the command line
MaxSearches == 2     \* search_codebase calls in one launch
MaxEvents == 2       \* events one run of the agents yields

\* --------------------------------------------------------- program constants
ChunkSize    == 800
ChunkOverlap == 100
K            == 5      \* similarity_search(query, k=5)

Files    == 1..NumFiles
Passes   == 1..NumPasses
Messages == 1..NumMessages
Contents == 1..MaxContent
Faults   == {"none", "perm", "decode", "io"}

VARIABLES
    fs,             \* fs[f]: content of project file f, 0 when it does not exist
    fault,          \* fault[f]: what a read of f fails with ("none": it succeeds)
    cur,            \* .charlie_index: [exists, meta, db, vindex]
    legacy,         \* .codeflow_index: the same record
    pc,             \* position of the pass
    i,              \* the file the rglob loop is at
    old_meta,       \* local old_meta
    new_meta,       \* local new_meta
    new_docs,       \* local new_docs
    current_hash,   \* local current_hash
    log,            \* lines printed by this pass that are warnings or errors
    cause,          \* what the pass raised with ("" while it has not)
    edits,          \* edits made so far by the user
    \* history of the run, read only by the properties
    loaded,         \* the mapping old_meta held right after the load
    meta_at_start,  \* the metadata document as it was when the pass began
    submitted,      \* chunks handed to the vector index by this pass
    accepted,       \* chunks the vector index took in during this pass
    seen,           \* files the scan of this pass found eligible
    hashed,         \* hashed[f]: content whose digest this pass computed (0: none)
    failed,         \* files this pass skipped because reading them failed
    skipped,        \* skipped[f]: the exception the load of f ended with and
                    \* the pass swallowed ("": none)
    logged,         \* files this pass printed a line about
    touched,        \* the user edited the project while this pass ran
    quiet,          \* passes completed in a row with no edit since the first began
    meta_writes,    \* times this pass opened index_meta.json for writing
    last_embedded,  \* last_embedded[f]: content of f last taken in by the index
    dirs_at_start,  \* the two index directories as they were when the pass began
    plan,           \* the files this pass classed as changed and as unchanged
    search,         \* search_codebase: the query and the dict it returned
    \* two passes over one project directory at the same time
    race_fs,        \* race_fs[f]: content of project file f, 0 when absent
    race_meta,      \* the mapping index_meta.json holds
    race_pc,        \* race_pc[p]: position of pass p
    race_old_meta,  \* race_old_meta[p]: local old_meta of pass p
    race_new_meta,  \* race_new_meta[p]: local new_meta of pass p
    race_edits,     \* edits of the project made while the passes run
    race_walked,    \* race_walked[p]: the project files as pass p's walk met them
    race_submitted, \* race_submitted[p]: the chunks pass p submitted, in order
    \* max/memory.py
    memory_instance,  \* module global _memory_instance (0: None)
    heap,             \* heap[o]: messages held by memory object o
    refs,             \* what the calls of get_memory returned, in order
    \* max/app.py, CharlieApp
    charlie_queue,        \* messages the app has not handled yet, oldest first
    charlie_pc,           \* position of on_input_submitted ("idle": not running)
    charlie_query,        \* local query
    charlie_response,     \* local response
    charlie_chat_history, \* self.chat_history
    charlie_dots_count,   \* self._dots_count
    charlie_dots_timer,   \* self._dots_timer is not None
    charlie_saved,        \* exchanges passed to self.memory.save_context
    charlie_exchanges,    \* how each handled query ended, read by the properties
    charlie_inputs,       \* keys and submissions made so far
    \* max/cli.py, MaxApp.on_mount and the search tool
    launch_cwd,           \* the current working directory of the process
    launch_pc,            \* "shell": no application runs, "running": MaxApp runs
    launch_session,       \* the state of the session on_mount created
    launch_indexed,       \* directories build_or_load_vectorstore was called on
    launch_searched,      \* directory each search_codebase call of this launch searched
    launch_count,         \* launches so far
    \* max/tui/app.py, MaxApp
    max_queue,            \* messages the app has not handled yet, oldest first
    max_pc,               \* position of on_input_submitted ("idle": not running)
    max_query,            \* local query
    max_response,         \* local response
    max_current_agent,    \* local current_agent ("" is None)
    max_parts,            \* parts of the current event not yet looked at
    max_chat_history,     \* self.chat_history
    max_dots_count,       \* self._dots_count
    max_dots_timer,       \* self._dots_timer is not None
    max_timers,           \* timers set_interval created and nothing stopped
    max_is_streaming,     \* self._is_streaming
    max_error,            \* exception that left the handler or the timer callback
    max_events,           \* events the current stream has yielded
    max_inputs            \* keys and submissions made so far

vars == <<fs, fault, cur, legacy, pc, i, old_meta, new_meta, new_docs,
          current_hash, log, cause, edits, loaded, meta_at_start, submitted,
          accepted, seen, hashed, failed, skipped, logged, touched, quiet,
          meta_writes, last_embedded, dirs_at_start, plan, search>>

raceVars == <<race_fs, race_meta, race_pc, race_old_meta, race_new_meta,
              race_edits, race_walked, race_submitted>>

memoryVars == <<memory_instance, heap, refs>>

charlieVars == <<charlie_queue, charlie_pc, charlie_query, charlie_response,
                 charlie_chat_history, charlie_dots_count, charlie_dots_timer,
                 charlie_saved, charlie_exchanges, charlie_inputs>>

launchVars == <<launch_cwd, launch_pc, launch_session, launch_indexed,
                launch_searched, launch_count>>

maxVars == <<max_queue, max_pc, max_query, max_response, max_current_agent,
             max_parts, max_chat_history, max_dots_count, max_dots_timer,
             max_timers, max_is_streaming, max_error, max_events, max_inputs>>

uiVars == <<charlieVars, launchVars, maxVars>>

sideVars == <<raceVars, memoryVars, uiVars>>

\* ------------------------------------------------------------------ values
EmptyMap == [f \in {} |-> 0]

NoMeta == [kind |-> "absent", map |-> EmptyMap]

ValidMeta(m) == [kind |-> "valid", map |-> m]

BrokenMeta(k) == [kind |-> k, map |-> EmptyMap]

NoDir == [exists |-> FALSE, meta |-> NoMeta, db |-> FALSE, vindex |-> {}]

EmptyDir == [exists |-> TRUE, meta |-> NoMeta, db |-> FALSE, vindex |-> {}]

NoDirs == [cur |-> NoDir, legacy |-> NoDir]

NoPlan == [changed |-> {}, unchanged |-> {}]

NoSearch == [query |-> 0,
             out |-> [status |-> "", results |-> <<>>, count |-> 0]]

Doc(f, c) == [source |-> f, content |-> c]

Chunk(f, c, k) == [source |-> f, content |-> c, part |-> k]

\* dict.update
Update(old, new) ==
    [f \in (DOMAIN old) \cup (DOMAIN new) |->
        IF f \in DOMAIN new THEN new[f] ELSE old[f]]

\* new_meta[file_key] = current_hash
Put(m, f, h) == [g \in (DOMAIN m) \cup {f} |-> IF g = f THEN h ELSE m[g]]

\* ------------------------------------------------- collaborators of the pass
\* utils.file_hash on bytes c: a digest; distinct contents may share one
Hash(c) == c % NumDigests

\* utils.should_index: a regular file of the project, outside the index's own
\* directory, that passes the readability probe
should_index(f) == fs[f] # 0 /\ fault[f] = "none"

\* utils.file_hash reads the file's bytes: it fails when the read fails
\* (bytes that are not text are read like any others)
HashFails(f) == fs[f] = 0 \/ fault[f] \in {"perm", "io"}

\* length of the text of content c
TextLen(c) == c * TextUnit

\* chunks a text of length n splits into: spans of at most ChunkSize
\* characters, consecutive spans sharing ChunkOverlap characters
ChunkCount(n) ==
    IF n <= ChunkSize THEN 1
    ELSE 1 + ((n - ChunkSize) + (ChunkSize - ChunkOverlap) - 1)
                 \div (ChunkSize - ChunkOverlap)

\* splitter.split_documents on one document
SplitDoc(d) ==
    [k \in 1..ChunkCount(TextLen(d.content)) |-> Chunk(d.source, d.content, k)]

\* splitter.split_documents(new_docs): the documents' chunks, in order
RECURSIVE split_documents(_)
split_documents(docs) ==
    IF docs = <<>> THEN <<>>
    ELSE SplitDoc(Head(docs)) \o split_documents(Tail(docs))

Range(s) == {s[k] : k \in 1..Len(s)}

\* the content of source f that the index took in last, among chunks cs
\* handed over in order (n: what it was before)
RECURSIVE LastOf(_, _, _)
LastOf(cs, f, n) ==
    IF cs = <<>> THEN n
    ELSE LastOf(Tail(cs), f, IF Head(cs).source = f THEN Head(cs).content ELSE n)

\* the metadata document a pass starting now would read
EffectiveMeta ==
    IF cur.exists THEN cur.meta
    ELSE IF legacy.exists THEN legacy.meta
    ELSE NoMeta

\* ------------------------------------------------------- search_codebase
Queries == 1..NumQueries

\* the text of a chunk: which content it was cut from, and which span of it
Text(ch) == <<ch.content, ch.part>>

\* how far the embedding of chunk ch lies from the embedding of query q
Distance(q, ch) ==
    IF ch.content = q THEN ch.part - 1 ELSE 1 + ch.part

\* the order the index returns records in: nearer first, ties by record
Before(q, a, b) ==
    \/ Distance(q, a) < Distance(q, b)
    \/ /\ Distance(q, a) = Distance(q, b)
       /\ \/ a.source < b.source
          \/ a.source = b.source /\ a.content < b.content
          \/ a.source = b.source /\ a.content = b.content /\ a.part < b.part

Nearest(index, q) ==
    CHOOSE a \in index : \A b \in index : a = b \/ Before(q, a, b)

\* every record of the index, nearest first, whatever k is
RECURSIVE similarity_search_Unbounded(_, _, _)
similarity_search_Unbounded(index, q, k) ==
    IF index = {} THEN <<>>
    ELSE <<Nearest(index, q)>>
         \o similarity_search_Unbounded(index \ {Nearest(index, q)}, q, k)

\* vectorstore.similarity_search(query, k): the k nearest records, nearest
\* first; fewer when the index holds fewer
RECURSIVE similarity_search(_, _, _)
similarity_search(index, q, k) ==
    IF k = 0 \/ index = {} THEN <<>>
    ELSE <<Nearest(index, q)>>
         \o similarity_search(index \ {Nearest(index, q)}, q, k - 1)

\* lines 19-29: the dict search_codebase returns
Format(results) ==
    [status  |-> "success",
     results |-> [n \in 1..Len(results) |->
                    [file |-> results[n].source, content |-> Text(results[n])]],
     count   |-> Len(results)]

\* lines 16-29 after the pass returned a handle on index
search_codebase(index, q) ==
    [query |-> q, out |-> Format(similarity_search(index, q, K))]

Rest == {"idle", "done", "raised", "crashed"}

Running == {"load_meta", "scan", "hash", "load", "build", "save", "writing"}

\* ---------------------------------------------------------------- initial
\* no second pass is running
RaceParked ==
    /\ race_fs = [f \in Files |-> 0]
    /\ race_meta = EmptyMap
    /\ race_pc = [p \in Passes |-> "idle"]
    /\ race_old_meta = [p \in Passes |-> EmptyMap]
    /\ race_new_meta = [p \in Passes |-> EmptyMap]
    /\ race_edits = 0
    /\ race_walked = [p \in Passes |-> [f \in Files |-> 0]]
    /\ race_submitted = [p \in Passes |-> <<>>]

\* CharlieApp as __init__ leaves it (lines 57-65), nothing typed yet
CharlieParked ==
    /\ charlie_queue = <<>>
    /\ charlie_pc = "idle"
    /\ charlie_query = <<>>
    /\ charlie_response = <<>>
    /\ charlie_chat_history = <<>>
    /\ charlie_dots_count = 0
    /\ charlie_dots_timer = FALSE
    /\ charlie_saved = <<>>
    /\ charlie_exchanges = <<>>
    /\ charlie_inputs = 0

\* a shell in the first directory, the command not yet run
LaunchParked ==
    /\ launch_cwd = "/a"
    /\ launch_pc = "shell"
    /\ launch_session = [project_path |-> "/a"]
    /\ launch_indexed = {}
    /\ launch_searched = <<>>
    /\ launch_count = 0

\* MaxApp as __init__ leaves it (lines 67-79), nothing typed yet
MaxParked ==
    /\ max_queue = <<>>
    /\ max_pc = "idle"
    /\ max_query = <<>>
    /\ max_response = <<>>
    /\ max_current_agent = ""
    /\ max_parts = <<>>
    /\ max_chat_history = <<>>
    /\ max_dots_count = 0
    /\ max_dots_timer = FALSE
    /\ max_timers = 0
    /\ max_is_streaming = FALSE
    /\ max_error = "none"
    /\ max_events = 0
    /\ max_inputs = 0

\* no application window is open
UiParked ==
    /\ CharlieParked
    /\ LaunchParked
    /\ MaxParked

\* max/memory.py as the import leaves it: _memory_instance = None
MemoryParked ==
    /\ memory_instance = 0
    /\ heap = <<>>
    /\ refs = <<>>

\* a legacy index, as a pass of the previous version left it for file 1
LegacyDir ==
    [exists |-> TRUE,
     meta   |-> ValidMeta(Put(EmptyMap, 1, Hash(1))),
     db     |-> TRUE,
     vindex |-> Range(SplitDoc(Doc(1, 1)))]

Init ==
    /\ fs \in [Files -> 0..MaxContent]
    /\ fault = [f \in Files |-> "none"]
    /\ cur \in {NoDir, EmptyDir}
    /\ legacy \in {NoDir, LegacyDir}
    /\ pc = "idle"
    /\ i = 1
    /\ old_meta = EmptyMap
    /\ new_meta = EmptyMap
    /\ new_docs = <<>>
    /\ current_hash = 0
    /\ log = {}
    /\ cause = ""
    /\ edits = 0
    /\ loaded = EmptyMap
    /\ meta_at_start = NoMeta
    /\ submitted = {}
    /\ accepted = {}
    /\ seen = {}
    /\ hashed = [f \in Files |-> 0]
    /\ failed = {}
    /\ skipped = [f \in Files |-> ""]
    /\ logged = {}
    /\ touched = FALSE
    /\ quiet = 0
    /\ meta_writes = 0
    /\ last_embedded = [f \in Files |-> IF legacy.exists /\ f = 1 THEN 1 ELSE 0]
    /\ dirs_at_start = NoDirs
    /\ plan = NoPlan
    /\ search = NoSearch
    /\ RaceParked
    /\ MemoryParked
    /\ UiParked

\* ------------------------------------------------------- the pass, in steps
fsVars == <<fs, fault, edits>>

localVars == <<i, old_meta, new_meta, new_docs, current_hash>>

histVars == <<loaded, meta_at_start, dirs_at_start, submitted, accepted, seen,
              plan, hashed, failed, skipped, logged, touched, quiet, meta_writes, search,
              last_embedded>>

\* the call raises: the exception reaches the caller, no handle is returned
Raise(what) ==
    /\ pc' = "raised"
    /\ cause' = what
    /\ quiet' = 0

\* line 20 copying the legacy directory instead of moving it
StartPass_Copies ==
    /\ pc \in Rest
    /\ IF legacy.exists /\ ~cur.exists
         THEN /\ cur' = legacy
              /\ legacy' = legacy
              /\ log' = {}
         ELSE /\ cur' = [cur EXCEPT !.exists = TRUE]
              /\ legacy' = legacy
              /\ log' = {}
    /\ pc' = "load_meta"
    /\ cause' = ""
    /\ i' = 1
    /\ old_meta' = EmptyMap
    /\ new_meta' = EmptyMap
    /\ new_docs' = <<>>
    /\ current_hash' = 0
    /\ loaded' = EmptyMap
    /\ meta_at_start' = EffectiveMeta
    /\ dirs_at_start' = [cur |-> cur, legacy |-> legacy]
    /\ submitted' = {}
    /\ accepted' = {}
    /\ seen' = {}
    /\ plan' = NoPlan
    /\ hashed' = [f \in Files |-> 0]
    /\ failed' = {}
    /\ skipped' = [f \in Files |-> ""]
    /\ logged' = {}
    /\ touched' = FALSE
    /\ meta_writes' = 0
    /\ search' = NoSearch
    /\ UNCHANGED <<fsVars, quiet, last_embedded>>
    /\ UNCHANGED sideVars

\* lines 12-24: the directories; the legacy one is moved when it is alone
StartPass ==
    /\ pc \in Rest
    /\ IF legacy.exists /\ ~cur.exists
         THEN /\ cur' = legacy
              /\ legacy' = NoDir
              /\ log' = {}
         ELSE /\ cur' = [cur EXCEPT !.exists = TRUE]
              /\ legacy' = legacy
              /\ log' = {}
    /\ pc' = "load_meta"
    /\ cause' = ""
    /\ i' = 1
    /\ old_meta' = EmptyMap
    /\ new_meta' = EmptyMap
    /\ new_docs' = <<>>
    /\ current_hash' = 0
    /\ loaded' = EmptyMap
    /\ meta_at_start' = EffectiveMeta
    /\ dirs_at_start' = [cur |-> cur, legacy |-> legacy]
    /\ submitted' = {}
    /\ accepted' = {}
    /\ seen' = {}
    /\ plan' = NoPlan
    /\ hashed' = [f \in Files |-> 0]
    /\ failed' = {}
    /\ skipped' = [f \in Files |-> ""]
    /\ logged' = {}
    /\ touched' = FALSE
    /\ meta_writes' = 0
    /\ search' = NoSearch
    /\ UNCHANGED <<fsVars, quiet, last_embedded>>
    /\ UNCHANGED sideVars

\* line 24 (or the move of line 20) fails: the index directory cannot be made
StartFails ==
    /\ pc \in Rest
    /\ ~cur.exists
    /\ pc' = "raised"
    /\ cause' = "makedirs"
    /\ quiet' = 0
    /\ log' = {}
    /\ i' = 1
    /\ old_meta' = EmptyMap
    /\ new_meta' = EmptyMap
    /\ new_docs' = <<>>
    /\ current_hash' = 0
    /\ loaded' = EmptyMap
    /\ meta_at_start' = EffectiveMeta
    /\ dirs_at_start' = [cur |-> cur, legacy |-> legacy]
    /\ submitted' = {}
    /\ accepted' = {}
    /\ seen' = {}
    /\ plan' = NoPlan
    /\ hashed' = [f \in Files |-> 0]
    /\ failed' = {}
    /\ skipped' = [f \in Files |-> ""]
    /\ logged' = {}
    /\ touched' = FALSE
    /\ meta_writes' = 0
    /\ search' = NoSearch
    /\ UNCHANGED <<fsVars, cur, legacy, last_embedded>>
    /\ UNCHANGED sideVars

\* lines 30-35 never reading the stored mapping
LoadedMap_Empty(m) == EmptyMap

\* what lines 30-35 leave in old_meta for a metadata document m
LoadedMap(m) == IF m.kind = "valid" THEN m.map ELSE EmptyMap

\* the exceptions that the except clause of line 34 catches
LoadCaught(m) == m.kind \in {"badjson", "truncated"}

\* the exceptions of line 33 that the clause does not catch
LoadEscapes(m) == m.kind = "garbled"

\* lines 30-35: load existing metadata
LoadMeta ==
    /\ pc = "load_meta"
    /\ IF LoadEscapes(cur.meta)
         THEN /\ Raise("load_meta")
              /\ UNCHANGED <<old_meta, loaded, log>>
         ELSE /\ old_meta' = LoadedMap(cur.meta)
              /\ loaded' = LoadedMap(cur.meta)
              /\ log' = IF LoadCaught(cur.meta)
                          THEN log \cup {"Warning: Could not load index metadata"}
                          ELSE log
              /\ pc' = "scan"
              /\ UNCHANGED <<cause, quiet>>
    /\ UNCHANGED <<fsVars, cur, legacy, i, new_meta, new_docs, current_hash,
                   meta_at_start, dirs_at_start, submitted, accepted, seen, plan, hashed, failed, skipped, logged,
                   touched, meta_writes, search, last_embedded>>
    /\ UNCHANGED sideVars

\* line 48 without its test: every eligible file counts as changed
Changed_Always(f, h, m) == TRUE

\* line 48 testing the digest alone: a file without an entry counts as known
Changed_DigestOnly(f, h, m) == f \in DOMAIN m /\ m[f] # h

\* line 48 testing the key alone: a known file never counts as changed
Changed_KeyOnly(f, h, m) == f \notin DOMAIN m

\* line 48 negated: the file is new, or its digest differs from the stored one
Changed(f, h, m) == ~(f \in DOMAIN m /\ m[f] = h)

\* lines 41-43: the next entry of the walk; an entry that is not eligible is
\* passed over; after the last one the loop ends
ScanNext ==
    /\ pc = "scan"
    /\ IF i > NumFiles
         THEN /\ pc' = "build"
              /\ UNCHANGED <<i, seen>>
         ELSE IF should_index(i)
           THEN /\ pc' = "hash"
                /\ seen' = seen \cup {i}
                /\ i' = i
           ELSE /\ pc' = "scan"
                /\ i' = i + 1
                /\ seen' = seen
    /\ UNCHANGED <<fsVars, cur, legacy, old_meta, new_meta, new_docs,
                   current_hash, log, cause, loaded, meta_at_start, dirs_at_start, submitted,
                   accepted, plan, hashed, failed, skipped, logged, touched, quiet,
                   meta_writes, search,
                   last_embedded>>
    /\ UNCHANGED sideVars

\* lines 45-49: the digest of the file as it is now (outside any try), and
\* the comparison with the stored one
HashFile ==
    /\ pc = "hash"
    /\ IF HashFails(i)
         THEN /\ Raise("file_hash")
              /\ failed' = failed \cup {i}
              /\ UNCHANGED <<i, current_hash, hashed, plan>>
         ELSE /\ current_hash' = Hash(fs[i])
              /\ hashed' = [hashed EXCEPT ![i] = fs[i]]
              /\ IF Changed(i, Hash(fs[i]), old_meta)
                   THEN /\ pc' = "load"
                        /\ i' = i
                        /\ plan' = [plan EXCEPT !.changed = @ \cup {i}]
                   ELSE /\ pc' = "scan"
                        /\ i' = i + 1
                        /\ plan' = [plan EXCEPT !.unchanged = @ \cup {i}]
              /\ UNCHANGED <<cause, quiet, failed>>
    /\ UNCHANGED <<fsVars, cur, legacy, old_meta, new_meta, new_docs, log,
                   loaded, meta_at_start, dirs_at_start, submitted, accepted,
                   seen, skipped, logged, touched, meta_writes, search,
                   last_embedded>>
    /\ UNCHANGED sideVars

\* what TextLoader.load raises for the file as it is now ("": it loads)
LoadError(f) ==
    IF fs[f] = 0 THEN "FileNotFoundError"
    ELSE IF fault[f] = "perm" THEN "PermissionError"
    ELSE IF fault[f] = "decode" THEN "UnicodeDecodeError"
    ELSE IF fault[f] = "io" THEN "OSError"
    ELSE ""

\* lines 58-68 printing a line in every except clause
LoadLog_Always(e) == {"Warning: Could not read"}

\* lines 58-68: what each except clause prints
LoadLog(e) ==
    IF e = "OSError" THEN {"Warning: Could not read"} ELSE {}

\* line 57 moved out of the try: the digest is recorded though the load failed
LoadFile_RecordsFailed ==
    /\ pc = "load"
    /\ IF LoadError(i) = ""
         THEN /\ new_docs' = Append(new_docs, Doc(i, fs[i]))
              /\ new_meta' = Put(new_meta, i, current_hash)
              /\ UNCHANGED <<log, failed, skipped, logged>>
         ELSE /\ log' = log \cup LoadLog(LoadError(i))
              /\ failed' = failed \cup {i}
              /\ skipped' = [skipped EXCEPT ![i] = LoadError(i)]
              /\ logged' = IF LoadLog(LoadError(i)) = {} THEN logged
                                                        ELSE logged \cup {i}
              /\ new_meta' = Put(new_meta, i, current_hash)
              /\ UNCHANGED new_docs
    /\ i' = i + 1
    /\ pc' = "scan"
    /\ UNCHANGED <<fsVars, cur, legacy, old_meta, current_hash, cause, loaded,
                   meta_at_start, dirs_at_start, submitted, accepted, seen, plan, hashed, touched,
                   quiet, meta_writes, search, last_embedded>>
    /\ UNCHANGED sideVars

\* lines 51-68: load the text of a changed file; a failure skips the file
LoadFile ==
    /\ pc = "load"
    /\ IF LoadError(i) = ""
         THEN /\ new_docs' = Append(new_docs, Doc(i, fs[i]))
              /\ new_meta' = Put(new_meta, i, current_hash)
              /\ UNCHANGED <<log, failed, skipped, logged>>
         ELSE /\ log' = log \cup LoadLog(LoadError(i))
              /\ failed' = failed \cup {i}
              /\ skipped' = [skipped EXCEPT ![i] = LoadError(i)]
              /\ logged' = IF LoadLog(LoadError(i)) = {} THEN logged
                                                        ELSE logged \cup {i}
              /\ UNCHANGED <<new_docs, new_meta>>
    /\ i' = i + 1
    /\ pc' = "scan"
    /\ UNCHANGED <<fsVars, cur, legacy, old_meta, current_hash, cause, loaded,
                   meta_at_start, dirs_at_start, submitted, accepted, seen, plan, hashed, touched,
                   quiet, meta_writes, search, last_embedded>>
    /\ UNCHANGED sideVars

\* the index rebuilt from chunks cs alone, its earlier records dropped
TakeIn_Replace(cs) ==
    /\ cur' = [cur EXCEPT !.vindex = Range(cs), !.db = TRUE]
    /\ accepted' = Range(cs)
    /\ last_embedded' = [f \in Files |-> LastOf(cs, f, last_embedded[f])]

\* the index after it took in chunks cs
TakeIn(cs) ==
    /\ cur' = [cur EXCEPT !.vindex = @ \cup Range(cs), !.db = TRUE]
    /\ accepted' = Range(cs)
    /\ last_embedded' = [f \in Files |-> LastOf(cs, f, last_embedded[f])]

\* lines 71-77: Chroma.from_documents takes in every chunk
SubmitOk ==
    /\ pc = "build"
    /\ new_docs # <<>>
    /\ submitted' = Range(split_documents(new_docs))
    /\ TakeIn(split_documents(new_docs))
    /\ pc' = "save"
    /\ UNCHANGED <<fsVars, legacy, localVars, log, cause, loaded, meta_at_start, dirs_at_start,
                   seen, plan, hashed, failed, skipped, logged, touched, quiet, meta_writes, search>>
    /\ UNCHANGED sideVars

\* lines 74-76 raising inside a try whose finally writes the metadata
SubmitFails_SavesMeta ==
    /\ pc = "build"
    /\ new_docs # <<>>
    /\ submitted' = Range(split_documents(new_docs))
    /\ accepted' = {}
    /\ cur' = [cur EXCEPT !.meta = ValidMeta(Update(old_meta, new_meta))]
    /\ meta_writes' = meta_writes + 1
    /\ Raise("from_documents")
    /\ UNCHANGED <<fsVars, legacy, localVars, log, loaded, meta_at_start, dirs_at_start,
                   seen, plan, hashed, failed, skipped, logged, touched, search, last_embedded>>
    /\ UNCHANGED sideVars

\* lines 74-76 raising inside a try that swallows the exception
SubmitFails_Swallowed ==
    /\ pc = "build"
    /\ new_docs # <<>>
    /\ submitted' = Range(split_documents(new_docs))
    /\ accepted' = {}
    /\ pc' = "save"
    /\ UNCHANGED <<fsVars, cur, legacy, localVars, log, cause, loaded,
                   meta_at_start, dirs_at_start, seen, plan, hashed, failed, skipped, logged, touched, quiet,
                   meta_writes, search, last_embedded>>
    /\ UNCHANGED sideVars

\* lines 74-76 raise: the embedding or vector service fails after the index
\* took in the first n chunks (n = 0: none); nothing catches the exception
SubmitFails ==
    /\ pc = "build"
    /\ new_docs # <<>>
    /\ submitted' = Range(split_documents(new_docs))
    /\ \E n \in 0..(Len(split_documents(new_docs)) - 1) :
          TakeIn(SubSeq(split_documents(new_docs), 1, n))
    /\ Raise("from_documents")
    /\ UNCHANGED <<fsVars, legacy, localVars, log, loaded, meta_at_start, dirs_at_start,
                   seen, plan, hashed, failed, skipped, logged, touched, meta_writes, search>>
    /\ UNCHANGED sideVars

\* lines 78-93 treating a missing database as an error
OpenExisting_Errors ==
    /\ pc = "build"
    /\ new_docs = <<>>
    /\ IF cur.db
         THEN pc' = "save" /\ UNCHANGED <<cause, quiet>>
         ELSE Raise("chroma")
    /\ UNCHANGED <<fsVars, cur, legacy, localVars, log, loaded, meta_at_start,
                   dirs_at_start, submitted, accepted, seen, plan, hashed,
                   failed, skipped, logged, touched, meta_writes, search, last_embedded>>
    /\ UNCHANGED sideVars

\* lines 78-93: nothing to index; Chroma opens the directory's database,
\* creating an empty one on the first run
OpenExisting ==
    /\ pc = "build"
    /\ new_docs = <<>>
    /\ cur' = [cur EXCEPT !.db = TRUE]
    /\ pc' = "save"
    /\ UNCHANGED <<fsVars, legacy, localVars, log, cause, histVars>>
    /\ UNCHANGED sideVars

\* line 96 dropped: only this pass's entries are written
MergedMeta_NewOnly(old, new) == new

\* line 96: old_meta.update(new_meta)
MergedMeta(old, new) == Update(old, new)

\* lines 96-97, first half: the merge, and write_text opens index_meta.json
\* for writing, which truncates it
OpenMetaForWrite ==
    /\ pc = "save"
    /\ old_meta' = MergedMeta(old_meta, new_meta)
    /\ cur' = [cur EXCEPT !.meta = BrokenMeta("truncated")]
    /\ meta_writes' = meta_writes + 1
    /\ pc' = "writing"
    /\ UNCHANGED <<fsVars, legacy, i, new_meta, new_docs, current_hash, log,
                   cause, loaded, meta_at_start, dirs_at_start, submitted,
                   accepted, seen, plan, hashed, failed, skipped, logged, touched, quiet,
                   search, last_embedded>>
    /\ UNCHANGED sideVars

\* lines 97-98: the document is written and closed, and the handle returned
WriteMetaAndReturn ==
    /\ pc = "writing"
    /\ cur' = [cur EXCEPT !.meta = ValidMeta(old_meta)]
    /\ pc' = "done"
    /\ quiet' = IF touched THEN 0 ELSE IF quiet < 2 THEN quiet + 1 ELSE 2
    /\ \E q \in Queries : search' = search_codebase(cur.vindex, q)
    /\ UNCHANGED <<fsVars, legacy, localVars, log, cause, loaded,
                   meta_at_start, dirs_at_start, submitted, accepted, seen,
                   plan, hashed, failed, skipped, logged, touched, meta_writes, last_embedded>>
    /\ UNCHANGED sideVars

\* the pass's frame is gone: its locals, and what was recorded about it
Forget ==
    /\ i' = 1
    /\ old_meta' = EmptyMap
    /\ new_meta' = EmptyMap
    /\ new_docs' = <<>>
    /\ current_hash' = 0
    /\ log' = {}
    /\ cause' = ""
    /\ loaded' = EmptyMap
    /\ submitted' = {}
    /\ accepted' = {}
    /\ seen' = {}
    /\ plan' = NoPlan
    /\ hashed' = [f \in Files |-> 0]
    /\ failed' = {}
    /\ skipped' = [f \in Files |-> ""]
    /\ logged' = {}
    /\ touched' = FALSE
    /\ meta_writes' = 0
    /\ search' = NoSearch

\* the process dies in the middle of a pass
Crash ==
    /\ pc \in Running
    /\ pc' = "crashed"
    /\ quiet' = 0
    /\ Forget
    /\ UNCHANGED <<fsVars, cur, legacy, meta_at_start, dirs_at_start, last_embedded>>
    /\ UNCHANGED sideVars

\* ------------------------------------------------------------ the project
\* the user's edits fall anywhere, also between two steps of a pass; what
\* was recorded about a finished pass describes the project until the next edit
Edited ==
    /\ edits < MaxEdits
    /\ edits' = edits + 1
    /\ quiet' = 0
    /\ IF pc \in Rest
         THEN /\ pc' = "idle"
              /\ Forget
              /\ meta_at_start' = NoMeta
              /\ dirs_at_start' = NoDirs
         ELSE /\ touched' = TRUE
              /\ UNCHANGED <<pc, localVars, log, cause, loaded, meta_at_start, dirs_at_start,
                             submitted, accepted, seen, plan, hashed, failed, skipped, logged,
                             meta_writes, search>>

\* a file is created or its content replaced
WriteFile ==
    /\ \E f \in Files, c \in Contents :
         /\ fs[f] # c
         /\ fs' = [fs EXCEPT ![f] = c]
    /\ Edited
    /\ UNCHANGED <<fault, cur, legacy, last_embedded>>
    /\ UNCHANGED sideVars

\* a file is deleted
DeleteFile ==
    /\ \E f \in Files :
         /\ fs[f] # 0
         /\ fs' = [fs EXCEPT ![f] = 0]
         /\ fault' = [fault EXCEPT ![f] = "none"]
    /\ Edited
    /\ UNCHANGED <<cur, legacy, last_embedded>>
    /\ UNCHANGED sideVars

\* a file becomes unreadable (permissions, a failing device) or readable again
SetFault ==
    /\ \E f \in Files, k \in Faults :
         /\ fs[f] # 0
         /\ fault[f] # k
         /\ fault' = [fault EXCEPT ![f] = k]
    /\ Edited
    /\ UNCHANGED <<fs, cur, legacy, last_embedded>>
    /\ UNCHANGED sideVars

\* index_meta.json is replaced, between two passes, by text that is not JSON
\* or by bytes that are not text
CorruptMeta ==
    /\ pc \in Rest
    /\ cur.exists
    /\ cur.meta.kind \in {"valid", "truncated"}
    /\ \E k \in {"badjson", "garbled"} :
         cur' = [cur EXCEPT !.meta = BrokenMeta(k)]
    /\ Edited
    /\ UNCHANGED <<fs, fault, legacy, last_embedded>>
    /\ UNCHANGED sideVars

Next ==
    \/ StartPass
    \/ StartFails
    \/ LoadMeta
    \/ ScanNext
    \/ HashFile
    \/ LoadFile
    \/ SubmitOk
    \/ SubmitFails
    \/ OpenExisting
    \/ OpenMetaForWrite
    \/ WriteMetaAndReturn
    \/ Crash
    \/ WriteFile
    \/ DeleteFile
    \/ SetFault
    \/ CorruptMeta

Spec == Init /\ [][Next]_vars

\* ------------------------------------------ two passes at the same time
\* no pass of the single-pass model is running: an empty project, no index
PassParked ==
    /\ fs = [f \in Files |-> 0]
    /\ fault = [f \in Files |-> "none"]
    /\ cur = NoDir
    /\ legacy = NoDir
    /\ pc = "idle"
    /\ i = 1
    /\ old_meta = EmptyMap
    /\ new_meta = EmptyMap
    /\ new_docs = <<>>
    /\ current_hash = 0
    /\ log = {}
    /\ cause = ""
    /\ edits = 0
    /\ loaded = EmptyMap
    /\ meta_at_start = NoMeta
    /\ submitted = {}
    /\ accepted = {}
    /\ seen = {}
    /\ hashed = [f \in Files |-> 0]
    /\ failed = {}
    /\ skipped = [f \in Files |-> ""]
    /\ logged = {}
    /\ touched = FALSE
    /\ quiet = 0
    /\ meta_writes = 0
    /\ last_embedded = [f \in Files |-> 0]
    /\ dirs_at_start = NoDirs
    /\ plan = NoPlan
    /\ search = NoSearch

\* two invocations of build_or_load_vectorstore on a project whose index
\* directory holds an empty mapping
InitRace ==
    /\ PassParked
    /\ MemoryParked
    /\ UiParked
    /\ race_fs \in [Files -> 0..MaxContent]
    /\ race_meta = EmptyMap
    /\ race_pc = [p \in Passes |-> "idle"]
    /\ race_old_meta = [p \in Passes |-> EmptyMap]
    /\ race_new_meta = [p \in Passes |-> EmptyMap]
    /\ race_edits = 0
    /\ race_walked = [p \in Passes |-> [f \in Files |-> 0]]
    /\ race_submitted = [p \in Passes |-> <<>>]

\* lines 41-68 over the files from f on: the entries new_meta receives
RECURSIVE Scanned(_, _)
Scanned(f, old) ==
    IF f > NumFiles THEN EmptyMap
    ELSE IF race_fs[f] # 0 /\ Changed(f, Hash(race_fs[f]), old)
         THEN Put(Scanned(f + 1, old), f, Hash(race_fs[f]))
         ELSE Scanned(f + 1, old)

\* lines 30-35 in pass p: index_meta.json is read, no lock is taken
RaceLoad(p) ==
    /\ race_pc[p] = "idle"
    /\ race_old_meta' = [race_old_meta EXCEPT ![p] = race_meta]
    /\ race_pc' = [race_pc EXCEPT ![p] = "scan"]
    /\ UNCHANGED <<race_fs, race_meta, race_new_meta, race_edits, race_walked,
                   race_submitted>>
    /\ UNCHANGED <<vars, memoryVars, uiVars>>

\* lines 41-56 over the files from f on: the documents new_docs receives
RECURSIVE WalkDocs(_, _)
WalkDocs(f, old) ==
    IF f > NumFiles THEN <<>>
    ELSE IF race_fs[f] # 0 /\ Changed(f, Hash(race_fs[f]), old)
         THEN <<Doc(f, race_fs[f])>> \o WalkDocs(f + 1, old)
         ELSE WalkDocs(f + 1, old)

Reverse(s) == [k \in 1..Len(s) |-> s[Len(s) + 1 - k]]

\* lines 41-93 with a splitter whose output depends on the call, not only
\* on the documents
RaceScan_Unstable(p) ==
    /\ race_pc[p] = "scan"
    /\ race_new_meta' = [race_new_meta EXCEPT ![p] = Scanned(1, race_old_meta[p])]
    /\ race_walked' = [race_walked EXCEPT ![p] = race_fs]
    /\ race_submitted' = [race_submitted EXCEPT ![p] =
          IF p = 1 THEN split_documents(WalkDocs(1, race_old_meta[p]))
          ELSE Reverse(split_documents(WalkDocs(1, race_old_meta[p])))]
    /\ race_pc' = [race_pc EXCEPT ![p] = "save"]
    /\ UNCHANGED <<race_fs, race_meta, race_old_meta, race_edits>>
    /\ UNCHANGED <<vars, memoryVars, uiVars>>

\* lines 41-93 in pass p: the walk, and the changed files split and embedded
RaceScan(p) ==
    /\ race_pc[p] = "scan"
    /\ race_new_meta' = [race_new_meta EXCEPT ![p] = Scanned(1, race_old_meta[p])]
    /\ race_walked' = [race_walked EXCEPT ![p] = race_fs]
    /\ race_submitted' = [race_submitted EXCEPT ![p] =
          split_documents(WalkDocs(1, race_old_meta[p]))]
    /\ race_pc' = [race_pc EXCEPT ![p] = "save"]
    /\ UNCHANGED <<race_fs, race_meta, race_old_meta, race_edits>>
    /\ UNCHANGED <<vars, memoryVars, uiVars>>

\* lines 96-97 reading index_meta.json again and merging into what it holds
RaceSave_Rereads(p) ==
    /\ race_pc[p] = "save"
    /\ race_meta' = MergedMeta(race_meta, race_new_meta[p])
    /\ race_pc' = [race_pc EXCEPT ![p] = "done"]
    /\ UNCHANGED <<race_fs, race_old_meta, race_new_meta, race_edits,
                   race_walked, race_submitted>>
    /\ UNCHANGED <<vars, memoryVars, uiVars>>

\* lines 96-98 in pass p: the mapping loaded at the start, merged with this
\* pass's entries, replaces whatever index_meta.json holds by now
RaceSave(p) ==
    /\ race_pc[p] = "save"
    /\ race_meta' = MergedMeta(race_old_meta[p], race_new_meta[p])
    /\ race_pc' = [race_pc EXCEPT ![p] = "done"]
    /\ UNCHANGED <<race_fs, race_old_meta, race_new_meta, race_edits,
                   race_walked, race_submitted>>
    /\ UNCHANGED <<vars, memoryVars, uiVars>>

\* the user creates, replaces or deletes a file while the passes run
RaceEdit ==
    /\ race_edits < MaxRaceEdits
    /\ race_edits' = race_edits + 1
    /\ \E f \in Files, c \in 0..MaxContent :
         /\ race_fs[f] # c
         /\ race_fs' = [race_fs EXCEPT ![f] = c]
    /\ UNCHANGED <<race_meta, race_pc, race_old_meta, race_new_meta,
                   race_walked, race_submitted>>
    /\ UNCHANGED <<vars, memoryVars, uiVars>>

NextRace ==
    \/ \E p \in Passes : RaceLoad(p)
    \/ \E p \in Passes : RaceScan(p)
    \/ \E p \in Passes : RaceSave(p)
    \/ RaceEdit

SpecRace == InitRace /\ [][NextRace]_raceVars

\* ------------------------------------------------------------ max/memory.py
InitMemory ==
    /\ PassParked
    /\ RaceParked
    /\ MemoryParked
    /\ UiParked

\* lines 13-18 constructing a memory object at every call
get_memory_Fresh ==
    /\ Len(refs) < MaxCalls
    /\ heap' = Append(heap, <<>>)
    /\ memory_instance' = Len(heap) + 1
    /\ refs' = Append(refs, Len(heap) + 1)
    /\ UNCHANGED <<vars, raceVars, uiVars>>

\* lines 6-18: one call of get_memory, from its first line to its return
get_memory ==
    /\ Len(refs) < MaxCalls
    /\ IF memory_instance = 0
         THEN /\ heap' = Append(heap, <<>>)
              /\ memory_instance' = Len(heap) + 1
         ELSE UNCHANGED <<heap, memory_instance>>
    /\ refs' = Append(refs, memory_instance')
    /\ UNCHANGED <<vars, raceVars, uiVars>>

\* a holder of the k-th returned reference saves a message through it
save_context ==
    /\ \E k \in 1..Len(refs), m \in Messages :
         /\ Len(heap[refs[k]]) < MaxHistory
         /\ heap' = [heap EXCEPT ![refs[k]] = Append(@, m)]
    /\ UNCHANGED <<memory_instance, refs>>
    /\ UNCHANGED <<vars, raceVars, uiVars>>

NextMemory ==
    \/ get_memory
    \/ save_context

SpecMemory == InitMemory /\ [][NextMemory]_memoryVars

\* ================================================================ max/app.py
\* Text is a sequence of characters: " " is white space, "x" stands for the
\* cross mark the error messages start with, "w" and "q" for any other
\* character.  The fixed messages of the application are one-element texts.
Chars == {" ", "w", "x"}

Chunks == {<<>>} \cup {<<c>> : c \in Chars}

Values == {<<>>, <<" ">>, <<"q">>, <<" ", "q">>}

StreamErrors == {"ConnectionError", "TimeoutError", "Exception"}

RECURSIVE lstrip(_)
lstrip(t) == IF t # <<>> /\ Head(t) = " " THEN lstrip(Tail(t)) ELSE t

RECURSIVE rstrip(_)
rstrip(t) ==
    IF t # <<>> /\ t[Len(t)] = " " THEN rstrip(SubSeq(t, 1, Len(t) - 1)) ELSE t

\* str.strip()
strip(t) == rstrip(lstrip(t))

\* response.startswith of the cross mark, line 142
startswith_cross(t) == t # <<>> /\ t[1] = "x"

\* "One sec" followed by n dots, lines 101 and 161
OneSec(n) == <<"One sec">> \o [k \in 1..n |-> "."]

\* line 137
NoResponse == <<"_No response received._">>

\* the messages of lines 122, 126 and 130, each starting with the cross mark
ErrorMessage(e) == <<"x", e>>

\* self.chat_history[-1] = entry
SetLast(h, entry) == [h EXCEPT ![Len(h)] = entry]

\* lines 133-143: the finally block, for the response the try statement left
CharlieFinally(outcome, streamed, response) ==
    LET final == IF strip(response) = <<>> THEN NoResponse ELSE response
        save  == final # <<>> /\ ~startswith_cross(final)
    IN  /\ charlie_dots_timer' = FALSE
        /\ charlie_dots_count' = IF charlie_dots_timer THEN 0
                                                       ELSE charlie_dots_count
        /\ charlie_chat_history' = SetLast(charlie_chat_history, <<"ai", final>>)
        /\ charlie_response' = final
        /\ charlie_saved' =
              IF save THEN Append(charlie_saved,
                                  [input |-> charlie_query, output |-> final])
                      ELSE charlie_saved
        /\ charlie_exchanges' =
              Append(charlie_exchanges,
                     [query |-> charlie_query, outcome |-> outcome,
                      streamed |-> streamed, response |-> final, saved |-> save])
        /\ charlie_pc' = "idle"

InitCharlie ==
    /\ PassParked
    /\ RaceParked
    /\ MemoryParked
    /\ UiParked

\* the Input widget posts Input.Submitted with the typed value
CharlieSubmit ==
    /\ charlie_inputs < MaxInputs
    /\ \E v \in Values :
          charlie_queue' = Append(charlie_queue, [type |-> "submit", value |-> v])
    /\ charlie_inputs' = charlie_inputs + 1
    /\ UNCHANGED <<charlie_pc, charlie_query, charlie_response,
                   charlie_chat_history, charlie_dots_count, charlie_dots_timer,
                   charlie_saved, charlie_exchanges>>
    /\ UNCHANGED <<vars, raceVars, memoryVars, launchVars, maxVars>>

\* ctrl+d, bound to clear_log
CharlieKeyClear ==
    /\ charlie_inputs < MaxInputs
    /\ charlie_queue' = Append(charlie_queue, [type |-> "clear", value |-> <<>>])
    /\ charlie_inputs' = charlie_inputs + 1
    /\ UNCHANGED <<charlie_pc, charlie_query, charlie_response,
                   charlie_chat_history, charlie_dots_count, charlie_dots_timer,
                   charlie_saved, charlie_exchanges>>
    /\ UNCHANGED <<vars, raceVars, memoryVars, launchVars, maxVars>>

\* action_clear_log, run by the application between two handlers
Charlie_action_clear_log ==
    /\ charlie_pc = "idle"
    /\ charlie_queue # <<>>
    /\ Head(charlie_queue).type = "clear"
    /\ charlie_queue' = Tail(charlie_queue)
    /\ charlie_chat_history' = <<>>
    /\ UNCHANGED <<charlie_pc, charlie_query, charlie_response,
                   charlie_dots_count, charlie_dots_timer, charlie_saved,
                   charlie_exchanges, charlie_inputs>>
    /\ UNCHANGED <<vars, raceVars, memoryVars, launchVars, maxVars>>

\* on_input_submitted up to the first wait of the stream, lines 91-110
Charlie_on_input_submitted ==
    /\ charlie_pc = "idle"
    /\ charlie_queue # <<>>
    /\ Head(charlie_queue).type = "submit"
    /\ charlie_queue' = Tail(charlie_queue)
    /\ LET query == strip(Head(charlie_queue).value)
       IN  IF query = <<>>
           THEN UNCHANGED <<charlie_pc, charlie_query, charlie_response,
                            charlie_chat_history, charlie_dots_count,
                            charlie_dots_timer>>
           ELSE /\ charlie_query' = query
                /\ charlie_chat_history' =
                      charlie_chat_history
                        \o << <<"user", query>>, <<"ai", OneSec(1)>> >>
                /\ charlie_dots_count' = IF charlie_dots_timer
                                            THEN charlie_dots_count ELSE 1
                /\ charlie_dots_timer' = TRUE
                /\ charlie_response' = <<>>
                /\ charlie_pc' = "stream"
    /\ UNCHANGED <<charlie_saved, charlie_exchanges, charlie_inputs>>
    /\ UNCHANGED <<vars, raceVars, memoryVars, launchVars, maxVars>>

\* one turn of the loop of line 110: the stream yields a chunk
CharlieChunk ==
    /\ charlie_pc = "stream"
    /\ Len(charlie_response) < MaxChunks
    /\ \E chunk \in Chunks :
          /\ charlie_response' = charlie_response \o chunk
          /\ charlie_chat_history' =
                SetLast(charlie_chat_history, <<"ai", charlie_response'>>)
    /\ UNCHANGED <<charlie_queue, charlie_pc, charlie_query, charlie_dots_count,
                   charlie_dots_timer, charlie_saved, charlie_exchanges,
                   charlie_inputs>>
    /\ UNCHANGED <<vars, raceVars, memoryVars, launchVars, maxVars>>

\* the stream is exhausted: the loop ends and the finally block runs
CharlieStreamEnds ==
    /\ charlie_pc = "stream"
    /\ CharlieFinally("completed", charlie_response, charlie_response)
    /\ UNCHANGED <<charlie_queue, charlie_query, charlie_inputs>>
    /\ UNCHANGED <<vars, raceVars, memoryVars, launchVars, maxVars>>

\* the stream raises: one of the handlers of lines 121-131, then finally
CharlieStreamRaises ==
    /\ charlie_pc = "stream"
    /\ \E e \in StreamErrors :
          CharlieFinally(e, charlie_response, ErrorMessage(e))
    /\ UNCHANGED <<charlie_queue, charlie_query, charlie_inputs>>
    /\ UNCHANGED <<vars, raceVars, memoryVars, launchVars, maxVars>>

\* _animate_dots, called by the timer while the handler waits for the stream
Charlie_animate_dots ==
    /\ charlie_dots_timer
    /\ charlie_dots_count' = (charlie_dots_count % 3) + 1
    /\ charlie_chat_history' =
          SetLast(charlie_chat_history, <<"ai", OneSec(charlie_dots_count')>>)
    /\ UNCHANGED <<charlie_queue, charlie_pc, charlie_query, charlie_response,
                   charlie_dots_timer, charlie_saved, charlie_exchanges,
                   charlie_inputs>>
    /\ UNCHANGED <<vars, raceVars, memoryVars, launchVars, maxVars>>

NextCharlie ==
    \/ CharlieSubmit
    \/ CharlieKeyClear
    \/ Charlie_action_clear_log
    \/ Charlie_on_input_submitted
    \/ CharlieChunk
    \/ CharlieStreamEnds
    \/ CharlieStreamRaises
    \/ Charlie_animate_dots

SpecCharlie == InitCharlie /\ [][NextCharlie]_charlieVars

\* ================================================================ max/cli.py
\* Directories are absolute paths; "/missing" names no directory.
Dirs == {"/a", "/b", "/c"}

Paths == {".", "/missing"} \cup Dirs

\* os.path.abspath(path) in a process whose working directory is cwd
abspath(cwd, path) == IF path = "." THEN cwd ELSE path

\* os.path.isdir
isdir(p) == p \in Dirs

\* the argument search_codebase gives build_or_load_vectorstore, tools.py line 16
tool_project_path == "."

InitLaunch ==
    /\ PassParked
    /\ RaceParked
    /\ MemoryParked
    /\ CharlieParked
    /\ MaxParked
    /\ launch_cwd \in Dirs
    /\ launch_pc = "shell"
    /\ launch_session = [project_path |-> "/a"]
    /\ launch_indexed = {}
    /\ launch_searched = <<>>
    /\ launch_count = 0

\* the user changes directory in the shell
LaunchCd ==
    /\ launch_pc = "shell"
    /\ \E d \in Dirs : launch_cwd' = d
    /\ UNCHANGED <<launch_pc, launch_session, launch_indexed, launch_searched,
                   launch_count>>
    /\ UNCHANGED <<vars, raceVars, memoryVars, charlieVars, maxVars>>

\* cli.main(path) up to MaxApp.on_mount: the session is created with the
\* absolute project path, or the command exits with status 1
main ==
    /\ launch_pc = "shell"
    /\ launch_count < MaxLaunches
    /\ launch_count' = launch_count + 1
    /\ \E path \in Paths :
          LET project_path == abspath(launch_cwd, path)
          IN  IF ~isdir(project_path)
              THEN UNCHANGED <<launch_pc, launch_session, launch_searched>>
              ELSE /\ launch_session' = [project_path |-> project_path]
                   /\ launch_searched' = <<>>
                   /\ launch_pc' = "running"
    /\ UNCHANGED <<launch_cwd, launch_indexed>>
    /\ UNCHANGED <<vars, raceVars, memoryVars, charlieVars, maxVars>>

\* the agent calls search_codebase: the index is built or loaded under the
\* directory the tool names, resolved by the process
LaunchSearch ==
    /\ launch_pc = "running"
    /\ Len(launch_searched) < MaxSearches
    /\ LET dir == abspath(launch_cwd, tool_project_path)
       IN  /\ launch_indexed' = launch_indexed \cup {dir}
           /\ launch_searched' = Append(launch_searched, dir)
    /\ UNCHANGED <<launch_cwd, launch_pc, launch_session, launch_count>>
    /\ UNCHANGED <<vars, raceVars, memoryVars, charlieVars, maxVars>>

\* ctrl+q: the application ends and the shell returns
LaunchQuit ==
    /\ launch_pc = "running"
    /\ launch_pc' = "shell"
    /\ UNCHANGED <<launch_cwd, launch_session, launch_indexed, launch_searched,
                   launch_count>>
    /\ UNCHANGED <<vars, raceVars, memoryVars, charlieVars, maxVars>>

NextLaunch ==
    \/ LaunchCd
    \/ main
    \/ LaunchSearch
    \/ LaunchQuit

SpecLaunch == InitLaunch /\ [][NextLaunch]_launchVars

\* ================================================================ max/tui/app.py
\* event.author: "" is an event without author
Authors == {"", "meta", "analyst"}

ToolCall == [kind |-> "tool_call", text |-> <<>>]

TextPart(t) == [kind |-> "text", text |-> t]

\* event.content.parts: nothing, a tool call, text (possibly empty or blank),
\* or a tool call followed by text
PartLists ==
    {<<>>, <<ToolCall>>, <<TextPart(<<>>)>>, <<TextPart(<<" ">>)>>,
     <<TextPart(<<"w">>)>>, <<ToolCall, TextPart(<<"w">>)>>}

Events == [author : Authors, parts : PartLists]

\* "Thinking" followed by n dots, lines 132 and 221
Thinking(n) == <<"Thinking">> \o [k \in 1..n |-> "."]

\* line 158, the arrow and the agent's name
AgentDisplay(agent) == <<"->", agent>>

\* line 172, whatever the tool's name
ToolDisplay == <<"Using tool">>

\* the dots fields of the application and the number of running timers
MaxDots == [timer |-> max_dots_timer, count |-> max_dots_count,
            live |-> max_timers]

\* _stop_dots_animation without resetting the count
stop_dots_KeepsCount(d) ==
    IF d.timer THEN [d EXCEPT !.timer = FALSE, !.live = d.live - 1] ELSE d

\* _start_dots_animation, lines 209-214
start_dots(d) ==
    IF ~d.timer THEN [timer |-> TRUE, count |-> 1, live |-> d.live + 1] ELSE d

\* _stop_dots_animation, lines 224-229
stop_dots(d) ==
    IF d.timer THEN [timer |-> FALSE, count |-> 0, live |-> d.live - 1] ELSE d

\* the handler's view of the application between two waits
MaxState ==
    [h |-> max_chat_history, d |-> MaxDots, response |-> max_response,
     pc |-> max_pc, parts |-> max_parts, err |-> max_error,
     streaming |-> max_is_streaming]

\* lines 184-194: an except clause.  The assignment to chat_history[-1]
\* raises IndexError on an empty list, and the finally block runs next
MaxExcept(st, e) ==
    [st EXCEPT !.response = ErrorMessage(e),
               !.h = IF st.h = <<>> THEN st.h
                     ELSE SetLast(st.h, <<"ai", ErrorMessage(e)>>)]

\* lines 196-203: the finally block.  On an empty list line 202 raises
\* IndexError, which leaves the handler
MaxFinally(st) ==
    LET final == IF strip(st.response) = <<>> THEN NoResponse ELSE st.response
    IN  [h |-> IF st.h = <<>> THEN st.h ELSE SetLast(st.h, <<"ai", final>>),
         d |-> stop_dots(st.d),
         response |-> final,
         pc |-> "idle",
         parts |-> <<>>,
         err |-> IF st.h = <<>> THEN "IndexError" ELSE st.err,
         streaming |-> FALSE]

\* lines 166-181: the parts of the event in order, up to the wait of line 175
\* or the end of the list; an IndexError goes to the clause of line 192
RECURSIVE RunParts(_, _)
RunParts(st, parts) ==
    IF parts = <<>>
    THEN [st EXCEPT !.pc = "events", !.parts = <<>>]
    ELSE LET part == Head(parts)
         IN  IF part.kind = "tool_call"
             THEN IF st.h = <<>>
                  THEN MaxFinally(MaxExcept(st, "Exception"))
                  ELSE [st EXCEPT !.h = SetLast(st.h, <<"ai", ToolDisplay>>),
                                  !.pc = "tool_sleep",
                                  !.parts = Tail(parts)]
             ELSE IF part.text # <<>>
                  THEN IF st.h = <<>>
                       THEN MaxFinally(MaxExcept(st, "Exception"))
                       ELSE RunParts(
                              [st EXCEPT !.response = st.response \o part.text,
                                         !.h = SetLast(st.h,
                                                 <<"ai", st.response \o part.text>>)],
                              Tail(parts))
                  ELSE RunParts(st, Tail(parts))

\* lines 164-181: the dots stop while there is no response text yet
AfterAgent(st, parts) ==
    RunParts(IF st.response = <<>> THEN [st EXCEPT !.d = stop_dots(st.d)] ELSE st,
             parts)

\* the handler reaches its next wait, or returns, in state st
MaxCommit(st) ==
    /\ max_chat_history' = st.h
    /\ max_dots_timer' = st.d.timer
    /\ max_dots_count' = st.d.count
    /\ max_timers' = st.d.live
    /\ max_response' = st.response
    /\ max_pc' = st.pc
    /\ max_parts' = st.parts
    /\ max_error' = st.err
    /\ max_is_streaming' = st.streaming

InitMax ==
    /\ PassParked
    /\ RaceParked
    /\ MemoryParked
    /\ UiParked

\* the Input widget posts Input.Submitted with the typed value
MaxSubmit ==
    /\ max_error = "none"
    /\ max_inputs < MaxInputs
    /\ \E v \in Values :
          max_queue' = Append(max_queue, [type |-> "submit", value |-> v])
    /\ max_inputs' = max_inputs + 1
    /\ UNCHANGED <<max_pc, max_query, max_response, max_current_agent,
                   max_parts, max_chat_history, max_dots_count, max_dots_timer,
                   max_timers, max_is_streaming, max_error, max_events>>
    /\ UNCHANGED <<vars, raceVars, memoryVars, charlieVars, launchVars>>

\* ctrl+d, bound to clear_log
MaxKeyClear ==
    /\ max_error = "none"
    /\ max_inputs < MaxInputs
    /\ max_queue' = Append(max_queue, [type |-> "clear", value |-> <<>>])
    /\ max_inputs' = max_inputs + 1
    /\ UNCHANGED <<max_pc, max_query, max_response, max_current_agent,
                   max_parts, max_chat_history, max_dots_count, max_dots_timer,
                   max_timers, max_is_streaming, max_error, max_events>>
    /\ UNCHANGED <<vars, raceVars, memoryVars, charlieVars, launchVars>>

\* action_clear_log run at any moment, a running handler included
Max_action_clear_log_Anytime ==
    /\ max_error = "none"
    /\ max_queue # <<>>
    /\ Head(max_queue).type = "clear"
    /\ max_queue' = Tail(max_queue)
    /\ max_chat_history' = <<>>
    /\ UNCHANGED <<max_pc, max_query, max_response, max_current_agent,
                   max_parts, max_dots_count, max_dots_timer, max_timers,
                   max_is_streaming, max_error, max_events, max_inputs>>
    /\ UNCHANGED <<vars, raceVars, memoryVars, charlieVars, launchVars>>

\* action_clear_log.  The application handles its messages one at a time: a
\* key pressed while on_input_submitted runs waits until the handler returned
Max_action_clear_log ==
    /\ max_error = "none"
    /\ max_pc = "idle"
    /\ max_queue # <<>>
    /\ Head(max_queue).type = "clear"
    /\ max_queue' = Tail(max_queue)
    /\ max_chat_history' = <<>>
    /\ UNCHANGED <<max_pc, max_query, max_response, max_current_agent,
                   max_parts, max_dots_count, max_dots_timer, max_timers,
                   max_is_streaming, max_error, max_events, max_inputs>>
    /\ UNCHANGED <<vars, raceVars, memoryVars, charlieVars, launchVars>>

\* on_input_submitted up to the first wait of the loop of line 151
Max_on_input_submitted ==
    /\ max_error = "none"
    /\ max_pc = "idle"
    /\ max_queue # <<>>
    /\ Head(max_queue).type = "submit"
    /\ max_queue' = Tail(max_queue)
    /\ LET query == strip(Head(max_queue).value)
           d     == start_dots(MaxDots)
       IN  IF query = <<>>
           THEN UNCHANGED <<max_pc, max_query, max_response, max_current_agent,
                            max_parts, max_chat_history, max_dots_count,
                            max_dots_timer, max_timers, max_is_streaming,
                            max_events>>
           ELSE /\ max_query' = query
                /\ max_chat_history' =
                      max_chat_history
                        \o << <<"user", query>>, <<"ai", Thinking(1)>> >>
                /\ max_dots_timer' = d.timer
                /\ max_dots_count' = d.count
                /\ max_timers' = d.live
                /\ max_response' = <<>>
                /\ max_current_agent' = ""
                /\ max_parts' = <<>>
                /\ max_is_streaming' = TRUE
                /\ max_events' = 0
                /\ max_pc' = "events"
    /\ UNCHANGED <<max_error, max_inputs>>
    /\ UNCHANGED <<vars, raceVars, memoryVars, charlieVars, launchVars>>

\* the run yields an event: lines 152-181 up to the next wait
MaxEvent ==
    /\ max_error = "none"
    /\ max_pc = "events"
    /\ max_events < MaxEvents
    /\ max_events' = max_events + 1
    /\ \E event \in Events :
          IF event.author # "" /\ event.author # max_current_agent
          THEN /\ max_current_agent' = event.author
               /\ IF event.author # "meta"
                  THEN IF max_chat_history = <<>>
                       THEN MaxCommit(MaxFinally(MaxExcept(
                                [MaxState EXCEPT !.d = stop_dots(MaxDots)],
                                "Exception")))
                       ELSE MaxCommit(
                                [MaxState EXCEPT
                                   !.d = stop_dots(MaxDots),
                                   !.h = SetLast(max_chat_history,
                                           <<"ai", AgentDisplay(event.author)>>),
                                   !.pc = "agent_sleep",
                                   !.parts = event.parts])
                  ELSE MaxCommit(AfterAgent(MaxState, event.parts))
          ELSE /\ UNCHANGED max_current_agent
               /\ MaxCommit(AfterAgent(MaxState, event.parts))
    /\ UNCHANGED <<max_queue, max_query, max_inputs>>
    /\ UNCHANGED <<vars, raceVars, memoryVars, charlieVars, launchVars>>

\* the sleep of line 160 is over: lines 161-181 up to the next wait
MaxAgentSleepEnds ==
    /\ max_error = "none"
    /\ max_pc = "agent_sleep"
    /\ IF max_chat_history = <<>>
       THEN MaxCommit(MaxFinally(MaxExcept(MaxState, "Exception")))
       ELSE MaxCommit(AfterAgent(
                [MaxState EXCEPT !.h = SetLast(max_chat_history, <<"ai", <<>> >>),
                                 !.d = start_dots(MaxDots)],
                max_parts))
    /\ UNCHANGED <<max_queue, max_query, max_current_agent, max_events,
                   max_inputs>>
    /\ UNCHANGED <<vars, raceVars, memoryVars, charlieVars, launchVars>>

\* the sleep of line 175 is over: the remaining parts, lines 166-181
MaxToolSleepEnds ==
    /\ max_error = "none"
    /\ max_pc = "tool_sleep"
    /\ MaxCommit(RunParts(MaxState, max_parts))
    /\ UNCHANGED <<max_queue, max_query, max_current_agent, max_events,
                   max_inputs>>
    /\ UNCHANGED <<vars, raceVars, memoryVars, charlieVars, launchVars>>

\* the run is exhausted: the loop ends and the finally block runs
MaxStreamEnds ==
    /\ max_error = "none"
    /\ max_pc = "events"
    /\ MaxCommit(MaxFinally(MaxState))
    /\ UNCHANGED <<max_queue, max_query, max_current_agent, max_events,
                   max_inputs>>
    /\ UNCHANGED <<vars, raceVars, memoryVars, charlieVars, launchVars>>

\* the run raises: one of the clauses of lines 184-194, then finally
MaxStreamRaises ==
    /\ max_error = "none"
    /\ max_pc = "events"
    /\ \E e \in StreamErrors : MaxCommit(MaxFinally(MaxExcept(MaxState, e)))
    /\ UNCHANGED <<max_queue, max_query, max_current_agent, max_events,
                   max_inputs>>
    /\ UNCHANGED <<vars, raceVars, memoryVars, charlieVars, launchVars>>

\* _animate_dots, called by a running timer while the handler waits; an
\* IndexError of line 221 leaves the callback
Max_animate_dots ==
    /\ max_error = "none"
    /\ max_timers > 0
    /\ max_dots_count' = (max_dots_count % 3) + 1
    /\ IF max_chat_history = <<>>
       THEN /\ max_error' = "IndexError"
            /\ UNCHANGED max_chat_history
       ELSE /\ max_chat_history' =
                  SetLast(max_chat_history, <<"ai", Thinking(max_dots_count')>>)
            /\ UNCHANGED max_error
    /\ UNCHANGED <<max_queue, max_pc, max_query, max_response,
                   max_current_agent, max_parts, max_dots_timer, max_timers,
                   max_is_streaming, max_events, max_inputs>>
    /\ UNCHANGED <<vars, raceVars, memoryVars, charlieVars, launchVars>>

NextMax ==
    \/ MaxSubmit
    \/ MaxKeyClear
    \/ Max_action_clear_log
    \/ Max_on_input_submitted
    \/ MaxEvent
    \/ MaxAgentSleepEnds
    \/ MaxToolSleepEnds
    \/ MaxStreamEnds
    \/ MaxStreamRaises
    \/ Max_animate_dots

SpecMax == InitMax /\ [][NextMax]_maxVars

\* ================================================================ properties
Sources(cs) == {c.source : c \in cs}

\* files whose text this pass loaded
LoadedOk == {new_docs[k].source : k \in 1..Len(new_docs)}

\* C1: a pass that follows a completed pass, with no edit of the project since
\* the first one began, submits no chunk to the vector index and writes an
\* index_meta.json equal to the one the first pass wrote.
C1_Idempotent ==
    (pc = "done" /\ quiet = 2) =>
        /\ new_docs = <<>>
        /\ submitted = {}
        /\ accepted = {}
        /\ cur.meta = meta_at_start

C1_Witness ==
    /\ pc = "done"
    /\ quiet = 2
    /\ cur.meta.kind = "valid"
    /\ DOMAIN cur.meta.map = Files

\* C2: when exactly one eligible file has a stored digest F1 that differs from
\* its digest F2 now, and every other eligible file has its stored digest, a
\* pass over the unedited project loads and embeds that file alone, and the
\* saved mapping gives it F2 and every other key its loaded digest.
C2_ChangeDetection ==
    (pc = "done" /\ quiet >= 1) =>
        \A f \in Files :
            ( /\ should_index(f)
              /\ f \in DOMAIN loaded
              /\ loaded[f] # Hash(fs[f])
              /\ \A g \in Files \ {f} :
                    should_index(g) =>
                        (g \in DOMAIN loaded /\ loaded[g] = Hash(fs[g])) )
            => /\ LoadedOk = {f}
               /\ Sources(submitted) = {f}
               /\ accepted = submitted
               /\ cur.meta.kind = "valid"
               /\ DOMAIN cur.meta.map = DOMAIN loaded
               /\ cur.meta.map[f] = Hash(fs[f])
               /\ \A g \in DOMAIN loaded \ {f} : cur.meta.map[g] = loaded[g]

C2_Witness ==
    /\ pc = "done"
    /\ quiet >= 1
    /\ \E f \in Files :
         /\ should_index(f)
         /\ f \in DOMAIN loaded
         /\ loaded[f] # Hash(fs[f])
         /\ \E g \in Files \ {f} :
               should_index(g) /\ g \in DOMAIN loaded /\ loaded[g] = Hash(fs[g])
         /\ \A g \in Files \ {f} :
               should_index(g) => (g \in DOMAIN loaded /\ loaded[g] = Hash(fs[g]))

\* C3: a pass in which the read of one file failed, skipped, logged, at fingerprint time or at
\* load time, completes without raising and records every other eligible file
\* in index_meta.json.
C3_PartialFailureTolerance ==
    (pc \in {"done", "raised"} /\ Cardinality(failed) = 1
        /\ (\A f \in failed : fs[f] # 0 /\ fault[f] # "none")
        /\ cause \in {"", "file_hash"}) =>
        /\ pc = "done"
        /\ cur.meta.kind = "valid"
        /\ \A g \in seen \ failed : g \in DOMAIN cur.meta.map

\* C4: a pass opens index_meta.json for writing at most once, only after the
\* walk has ended and the vector index has taken in every chunk of the pass;
\* until then, and when the pass raises, the metadata document is the one the
\* pass found.
C4_MetaWrittenLast ==
    /\ meta_writes <= 1
    /\ (pc \in (Running \ {"writing"}) \cup {"raised"}) =>
          (meta_writes = 0 /\ EffectiveMeta = meta_at_start)
    /\ (meta_writes = 1) =>
          /\ pc \in {"writing", "done"}
          /\ i > NumFiles
          /\ submitted = Range(split_documents(new_docs))
          /\ accepted = submitted

C4_Witness ==
    /\ pc = "raised"
    /\ cause = "from_documents"
    /\ accepted # {}
    /\ meta_at_start.kind = "valid"

\* C5: after a crash of the process in the middle of a pass, index_meta.json
\* is the complete document the pass found or the complete new one.
C5_CrashAtomicSave ==
    (pc = "crashed") =>
        (EffectiveMeta = meta_at_start \/ EffectiveMeta.kind = "valid")

Unparseable(m) == m.kind \in {"badjson", "garbled", "truncated"}

AfterLoad == {"scan", "hash", "load", "build", "save", "writing", "done"}

\* C6: a pass that finds an index_meta.json it cannot parse does not raise at
\* the load, prints a warning and goes on with an empty prior mapping; a pass
\* that finds none goes on with an empty prior mapping; a completed pass
\* leaves a valid mapping.
C6_CorruptMetaRecovery ==
    /\ (pc = "raised" /\ Unparseable(meta_at_start)) => cause # "load_meta"
    /\ (pc \in AfterLoad /\ Unparseable(meta_at_start)) =>
          (loaded = EmptyMap /\ "Warning: Could not load index metadata" \in log)
    /\ (pc \in AfterLoad /\ meta_at_start.kind = "absent") => loaded = EmptyMap
    /\ (pc = "done") => cur.meta.kind = "valid"

\* C7: after a completed pass every key of index_meta.json carries the digest
\* of the content of that file which the vector index took in last.
C7_MetaMatchesEmbedded ==
    (pc = "done") =>
        \A f \in DOMAIN cur.meta.map :
            /\ last_embedded[f] # 0
            /\ cur.meta.map[f] = Hash(last_embedded[f])

\* C8: when the submission of the chunks raises, the pass raises, the metadata
\* document is the one the pass found, and every file of the failed batch is
\* changed with respect to it; a pass gets to the save only when the vector
\* index took in every chunk.
C8_EmbeddingFailureIsHard ==
    /\ (pc = "raised" /\ cause = "from_documents") =>
          /\ EffectiveMeta = meta_at_start
          /\ new_meta # EmptyMap
          /\ \A f \in DOMAIN new_meta :
                Changed(f, new_meta[f], LoadedMap(EffectiveMeta))
    /\ (pc \in {"save", "writing", "done"}) => accepted = submitted

C8_Witness ==
    /\ pc = "raised"
    /\ cause = "from_documents"
    /\ meta_at_start.kind = "valid"
    /\ \E f \in DOMAIN new_meta : f \in DOMAIN meta_at_start.map

\* C9 as stated: after a completed pass, a key of the metadata the pass found
\* whose file the scan did not come upon has no key in index_meta.json.
C9_DeletedDropped ==
    (pc = "done") =>
        \A f \in (DOMAIN meta_at_start.map) \ seen : f \notin DOMAIN cur.meta.map

\* C9 amended: after a completed pass, a key of the metadata the pass found
\* whose file the scan did not come upon is still a key of index_meta.json,
\* with the digest it had.
C9_DeletedKept ==
    (pc = "done") =>
        \A f \in (DOMAIN meta_at_start.map) \ seen :
            /\ f \in DOMAIN cur.meta.map
            /\ cur.meta.map[f] = meta_at_start.map[f]

C9_Witness ==
    /\ pc = "done"
    /\ \E f \in (DOMAIN meta_at_start.map) \ seen : fs[f] = 0

\* C10: the mapping a completed pass saves has the keys of the loaded mapping
\* and of the files loaded in this pass, and no other; a file loaded in this
\* pass carries the digest computed in this pass, every other key the digest
\* of the loaded mapping.
C10_SavedIsMerge ==
    (pc = "done") =>
        /\ cur.meta.kind = "valid"
        /\ DOMAIN cur.meta.map = (DOMAIN loaded) \cup LoadedOk
        /\ \A f \in LoadedOk : cur.meta.map[f] = Hash(hashed[f])
        /\ \A f \in (DOMAIN loaded) \ LoadedOk : cur.meta.map[f] = loaded[f]

C10_Witness ==
    /\ pc = "done"
    /\ LoadedOk # {}
    /\ \E f \in (DOMAIN loaded) \cap LoadedOk : loaded[f] # cur.meta.map[f]
    /\ (DOMAIN loaded) \ LoadedOk # {}

\* the start of the pass (lines 12-24) went through, whatever came after
Started ==
    \/ pc \in Running \cup {"done", "crashed"}
    \/ pc = "raised" /\ cause # "makedirs"

\* C11: when a pass starts with .codeflow_index present and .charlie_index
\* absent, then from its start step on the legacy directory is gone, what it
\* held (index database, vector records, index_meta.json) is under
\* .charlie_index, and the prior mapping the pass loads is the one the legacy
\* index_meta.json held; when .charlie_index is present at the start, the
\* legacy directory is left as it was.
C11_LegacyMigration ==
    Started =>
        /\ (dirs_at_start.legacy.exists /\ ~dirs_at_start.cur.exists) =>
              /\ legacy = NoDir
              /\ cur.exists
              /\ cur.db = dirs_at_start.legacy.db
              /\ dirs_at_start.legacy.vindex \subseteq cur.vindex
              /\ pc = "load_meta" => cur.meta = dirs_at_start.legacy.meta
              /\ pc \in AfterLoad =>
                    loaded = LoadedMap(dirs_at_start.legacy.meta)
        /\ dirs_at_start.cur.exists => legacy = dirs_at_start.legacy

\* a completed pass that began with the legacy directory alone and used its
\* mapping
C11_Witness ==
    /\ pc = "done"
    /\ dirs_at_start.legacy.exists
    /\ ~dirs_at_start.cur.exists
    /\ legacy = NoDir
    /\ loaded = dirs_at_start.legacy.meta.map
    /\ loaded # EmptyMap
    /\ dirs_at_start.legacy.vindex \subseteq cur.vindex

\* an index database was on disk when the pass began (under .charlie_index,
\* or under the legacy directory the pass migrates)
IndexAtStart ==
    IF dirs_at_start.cur.exists THEN dirs_at_start.cur.db
    ELSE dirs_at_start.legacy.db

\* C12: a pass that began with no index database on disk and finds no
\* eligible file does not raise; when it returns, the vector index is empty
\* and its database exists, index_meta.json holds the empty mapping, written
\* once, and search_codebase on the handle answers with an empty list.
C12_FirstRunEmpty ==
    (Started /\ ~IndexAtStart /\ seen = {}) =>
        /\ pc # "raised"
        /\ pc = "done" =>
              /\ cur.db
              /\ cur.vindex = {}
              /\ cur.meta = ValidMeta(EmptyMap)
              /\ meta_writes = 1
              /\ search.out = [status |-> "success", results |-> <<>>,
                               count |-> 0]

\* a first pass over a project without files has returned
C12_Witness ==
    /\ pc = "done"
    /\ ~IndexAtStart
    /\ seen = {}
    /\ \A f \in Files : fs[f] = 0
    /\ cur.vindex = {}
    /\ search.out.count = 0

AfterScan == {"build", "save", "writing", "done"}

\* C13: the files a pass has classed as changed are those that are not a key
\* of the loaded mapping or whose fresh digest differs from the stored one,
\* the files it has classed as unchanged are those whose fresh digest equals
\* the stored one; no file is in both classes, and once the scan is over the
\* two classes together are the eligible files.
C13_PlannerPartition ==
    /\ plan.changed \cap plan.unchanged = {}
    /\ \A f \in plan.changed :
          f \notin DOMAIN loaded \/ loaded[f] # Hash(hashed[f])
    /\ \A f \in plan.unchanged :
          f \in DOMAIN loaded /\ loaded[f] = Hash(hashed[f])
    /\ pc \in AfterScan => plan.changed \cup plan.unchanged = seen

\* a pass over two files has classed one as changed for want of an entry and
\* the other as unchanged
C13_Witness ==
    /\ pc = "done"
    /\ \E f \in plan.changed : f \notin DOMAIN loaded
    /\ plan.unchanged # {}
    /\ plan.changed \cup plan.unchanged = Files

\* C14: two passes over one project take no lock around load, merge and
\* save: the save of a pass leaves in index_meta.json the mapping that pass
\* loaded at its start merged with its own entries, whatever another pass
\* wrote to the file in between.
C14_SaveOverwrites ==
    [][\A p \in Passes :
         (race_pc[p] = "save" /\ race_pc'[p] = "done") =>
             race_meta' = Update(race_old_meta[p], race_new_meta[p])]_raceVars

\* both passes loaded, then both saved, and index_meta.json has no entry for
\* a file whose fingerprint one of them recorded
C14_Witness ==
    /\ \A p \in Passes : race_pc[p] = "done"
    /\ \A p \in Passes : race_old_meta[p] = EmptyMap
    /\ \E p \in Passes, f \in Files :
          /\ f \in DOMAIN race_new_meta[p]
          /\ f \notin DOMAIN race_meta

\* C18: over any sequence of calls of get_memory at most one memory object
\* is constructed, every call returned the object _memory_instance names,
\* and the history read through any two returned references is the same.
C18_Singleton ==
    /\ Len(heap) <= 1
    /\ \A k \in 1..Len(refs) :
          /\ refs[k] = memory_instance
          /\ refs[k] \in 1..Len(heap)
    /\ \A j, k \in 1..Len(refs) : heap[refs[j]] = heap[refs[k]]

\* after several calls, messages saved through the returned references are
\* read through the first and the last of them
C18_Witness ==
    /\ Len(refs) = MaxCalls
    /\ Len(heap) = 1
    /\ Len(heap[refs[1]]) = MaxHistory
    /\ heap[refs[MaxCalls]] = heap[refs[1]]

\* C15: no step of any pass removes a record from the vector index: the
\* records under .charlie_index (after a migration, those the legacy
\* directory held) are still there after the step.
C15_NoPurge ==
    [][/\ cur.vindex \subseteq cur'.vindex
       /\ (legacy.exists /\ ~legacy'.exists) =>
              legacy.vindex \subseteq cur'.vindex]_vars

\* a later incremental pass has returned: the index still holds both the old
\* and the new content of a file that was modified, re-embedded and then
\* deleted, and the chunks of a file this pass found unchanged
C15_Witness ==
    /\ pc = "done"
    /\ \E f \in Files :
          /\ fs[f] = 0
          /\ Chunk(f, 1, 1) \in cur.vindex
          /\ Chunk(f, 2, 1) \in cur.vindex
    /\ \E g \in plan.unchanged :
          /\ Chunk(g, fs[g], 1) \in cur.vindex
          /\ Chunk(g, fs[g], 1) \notin accepted

\* C16: every chunk a pass submits carries as its source the key under which
\* the pass records its file, and after every completed pass the source of
\* every record of the vector index is a key of index_meta.json.
C16_ChunkProvenance ==
    /\ \A c \in submitted : c.source \in DOMAIN new_meta
    /\ (pc = "done" /\ ~Unparseable(meta_at_start)) =>
          /\ cur.meta.kind = "valid"
          /\ Sources(cur.vindex) \subseteq DOMAIN cur.meta.map

\* the record of the index a result entry was made from
EntryChunk(e) == Chunk(e.file, e.content[1], e.content[2])

Min(a, b) == IF a < b THEN a ELSE b

\* C17: the dict search_codebase returns after a pass has status "success";
\* its results are at most K entries, as many as the index has records when
\* it has fewer, each the source and the text of a record of the index,
\* nearest to the query first and no record left out nearer
\* than one returned; count is the length of results, and on an empty index
\* results is empty and count is 0.
C17_SearchContract ==
    pc = "done" =>
        LET out == search.out
            n   == Len(out.results)
            hit == [k \in 1..n |-> EntryChunk(out.results[k])]
        IN /\ search.query \in Queries
           /\ out.status = "success"
           /\ n <= K
           /\ n = Min(K, Cardinality(cur.vindex))
           /\ out.count = n
           /\ \A k \in 1..n : hit[k] \in cur.vindex
           /\ \A j, k \in 1..n : j < k => Before(search.query, hit[j], hit[k])
           /\ \A c \in cur.vindex \ Range(hit) :
                 \A k \in 1..n : Before(search.query, hit[k], c)
           /\ cur.vindex = {} => (out.results = <<>> /\ out.count = 0)

\* a search over an index of more than K records has returned K of them
C17_Witness ==
    /\ pc = "done"
    /\ Cardinality(cur.vindex) > K
    /\ search.out.count = K
    /\ Len(search.out.results) = K

\* files whose load failed in this pass and was swallowed
Skipped == {f \in Files : skipped[f] # ""}

C21_FailedLoadNotRecorded ==
    pc = "done" =>
        \A f \in Skipped :
            /\ f \in plan.changed
            /\ f \notin DOMAIN new_meta
            /\ cur.meta.kind = "valid"
            /\ f \in DOMAIN loaded =>
                  (f \in DOMAIN cur.meta.map /\ cur.meta.map[f] = loaded[f])
            /\ f \notin DOMAIN loaded => f \notin DOMAIN cur.meta.map

\* a pass has returned after the load of a file failed whose earlier entry
\* it had loaded, and after the load of another file succeeded
C21_Witness ==
    /\ pc = "done"
    /\ \E f \in Skipped : f \in DOMAIN loaded
    /\ new_meta # EmptyMap

\* C22: an exchange is passed to memory.save_context exactly when its stream
\* completed without an exception and yielded response text; an exchange that
\* ended in an exception, or whose stream yielded no text, is not saved.
C22_OnlySuccessfulSaved ==
    \A k \in 1..Len(charlie_exchanges) :
        LET e == charlie_exchanges[k]
        IN  e.saved <=> (e.outcome = "completed" /\ strip(e.streamed) # <<>>)

\* C23: while the application runs on project path P, held in the session
\* state, every search_codebase call of that launch searched the index under P.
C23_SearchesLaunchedProject ==
    launch_pc = "running" =>
        \A k \in 1..Len(launch_searched) :
            launch_searched[k] = launch_session.project_path

\* the dots fields agree with the running timers
DotsConsistent ==
    /\ max_timers \in {0, 1}
    /\ max_dots_timer <=> max_timers = 1
    /\ max_timers = 0 => max_dots_count = 0
    /\ max_timers = 1 => max_dots_count \in 1..3

\* a step in which on_input_submitted returns leaves the final response last
FinishedClean ==
    (max_pc # "idle" /\ max_pc' = "idle") =>
        /\ ~max_dots_timer'
        /\ max_timers' = 0
        /\ ~max_is_streaming'
        /\ max_chat_history' # <<>>
        /\ max_chat_history'[Len(max_chat_history')] = <<"ai", max_response'>>
        /\ \/ max_response' = max_response /\ strip(max_response) # <<>>
           \/ max_response' = NoResponse
           \/ \E e \in StreamErrors : max_response' = ErrorMessage(e)
        /\ \A n \in 0..3 : max_response' # Thinking(n)

\* C24: at most one dots timer runs at any moment; _dots_count is 0 while none
\* runs and in 1..3 while one runs; and when on_input_submitted returns, after
\* a completed run or after an exception, the timer is stopped, _is_streaming
\* is false and the last chat_history entry is the final ai response (streamed
\* text, error message or "_No response received._"), not a Thinking placeholder.
C24_DotsLifecycle == []DotsConsistent /\ [][FinishedClean]_maxVars

C24_Witness ==
    /\ max_pc = "idle"
    /\ max_events = MaxEvents
    /\ max_current_agent = "analyst"
    /\ max_chat_history # <<>>
    /\ max_chat_history[Len(max_chat_history)] = <<"ai", ErrorMessage("TimeoutError")>>
    /\ ~max_dots_timer
    /\ ~max_is_streaming

\* user entries, each immediately followed by one ai entry
Alternates(h) ==
    /\ Len(h) % 2 = 0
    /\ \A k \in 1..Len(h) : h[k][1] = IF k % 2 = 1 THEN "user" ELSE "ai"

\* a step that assigns chat_history[-1] replaces the ai entry of the current
\* query, while the handler runs, and nothing else
AssignsLastAiEntry ==
    (Len(max_chat_history') = Len(max_chat_history)
       /\ max_chat_history' # max_chat_history) =>
        LET n == Len(max_chat_history)
        IN  /\ n >= 2
            /\ max_pc # "idle"
            /\ max_chat_history[n][1] = "ai"
            /\ max_chat_history[n - 1] = <<"user", max_query>>
            /\ max_chat_history'[n][1] = "ai"
            /\ \A k \in 1..(n - 1) : max_chat_history'[k] = max_chat_history[k]

====
